---- MODULE Spec2Model ----
(***************************************************************************)
(* Month-view task calendar: the drag/selection handlers of Calendar.tsx,  *)
(* the create dialog of TaskModal.tsx and the date arithmetic of           *)
(* utils/date.ts.                                                          *)
(*                                                                         *)
(* A JS Date at local midnight is modelled by its day number (days since   *)
(* 1970-01-01); an ISO text "yyyy-MM-dd" by the triple <<y, m, d>>.  An    *)
(* optional value (Date | null) is <<>> or <<v>>.  Text typed in the       *)
(* dialog is a sequence of characters.                                     *)
(***************************************************************************)
EXTENDS Integers, Sequences, FiniteSets, TLC

VARIABLES
    tasks,          \* useState<Task[]>                       Calendar.tsx:38
    pendingStart,   \* useState<Date | null>                  Calendar.tsx:48
    pendingEnd,     \* useState<Date | null>                  Calendar.tsx:49
    dragRef,        \* useRef<DragMeta>                       Calendar.tsx:50
    modalOpen,      \* useState(false)                        Calendar.tsx:90
    name,           \* TaskModal useState("")                 TaskModal.tsx:17
    category,       \* TaskModal useState("To Do")            TaskModal.tsx:18
    currentMonth,   \* useState(new Date())                   Calendar.tsx:37
    query,          \* useState("")                           Calendar.tsx:41
    categoryFilters,\* useState<Set<Task["category"]>>        Calendar.tsx:42
    durationFilter, \* useState<0 | 7 | 14 | 21>(0)           Calendar.tsx:45
    args,           \* the pair of dates a date utility is called with
    result,         \* what the last call of a date utility returned
    gest,           \* history: <<d1, d2>>, the days of the beginSelect and of
                    \* the last extendSelect of the selection in progress,
                    \* while nothing but extendSelect and typing came between
    baseLen         \* history: per task, duration at creation / last resize

vars == <<tasks, pendingStart, pendingEnd, dragRef, modalOpen, name, category,
          currentMonth, query, categoryFilters, durationFilter, args, result,
          gest, baseLen>>

(***************************************************************************)
(* Bounds of the model.                                                    *)
(***************************************************************************)
MaxTasks == 2
\* day number of 2024-02-28: the window crosses the leap day and a month end
FirstDay == 19781
NumDays == 3
\* no task may end later than FirstDay + Horizon
Horizon == 2

Days == FirstDay .. (FirstDay + NumDays - 1)
TaskIds == 1 .. MaxTasks

Null == <<>>
Some(v) == <<v>>

\* a date utility is called with dates from FirstDay to FirstDay + DateSpan
DateSpan == 11
DateInputs == FirstDay .. (FirstDay + DateSpan)
\* no date utility has been called
NoCall == [fn |-> "none"]

\* texts typed into the name field
NameInputs == { <<" ">>, <<" ", "a", " ">> }
\* categories picked in the dialog, besides the default "To Do"
CategoryInputs == {"Review"}

(***************************************************************************)
(* date-fns / JS Date primitives used by utils/date.ts.                    *)
(***************************************************************************)
\* parseISO: "yyyy-MM-dd" -> Date (proleptic Gregorian day number)
parseISO(iso) ==
    LET y0  == iso[1]
        m   == iso[2]
        d   == iso[3]
        y   == IF m <= 2 THEN y0 - 1 ELSE y0
        era == y \div 400
        yoe == y - era * 400
        mp  == IF m > 2 THEN m - 3 ELSE m + 9
        doy == (153 * mp + 2) \div 5 + d - 1
        doe == yoe * 365 + yoe \div 4 - yoe \div 100 + doy
    IN  era * 146097 + doe - 719468

\* format(d, "yyyy-MM-dd")
fmt(date) ==
    LET z   == date + 719468
        era == z \div 146097
        doe == z - era * 146097
        yoe == (doe - doe \div 1460 + doe \div 36524 - doe \div 146096) \div 365
        doy == doe - (365 * yoe + yoe \div 4 - yoe \div 100)
        mp  == (5 * doy + 2) \div 153
        d   == doy - (153 * mp + 2) \div 5 + 1
        m   == IF mp < 10 THEN mp + 3 ELSE mp - 9
        y   == yoe + era * 400 + (IF m <= 2 THEN 1 ELSE 0)
    IN  <<y, m, d>>

\* Date.prototype.getDate
getDate(date) == fmt(date)[3]

\* Date.prototype.setDate on a copy: day n of date's month, overflowing into
\* the following months
setDate(date, n) ==
    LET c == fmt(date) IN parseISO(<<c[1], c[2], 1>>) + (n - 1)

isAfter(a, b) == a > b

differenceInCalendarDays(a, b) == a - b

Abs(n) == IF n < 0 THEN 0 - n ELSE n

\* Date.prototype.getDay: 0 is Sunday; 1970-01-01 was a Thursday
getDay(date) == (date + 4) % 7

\* new Date(year, monthIndex, day): monthIndex counts from 0 and overflows
\* into the neighbouring years
newDate(year, monthIndex, day) ==
    LET y == year + (IF monthIndex < 0 THEN -1 ELSE IF monthIndex > 11 THEN 1 ELSE 0)
        m == (monthIndex + 12) % 12
    IN  parseISO(<<y, m + 1, 1>>) + (day - 1)

getFullYear(date) == fmt(date)[1]

\* Date.prototype.getMonth: counts from 0
getMonth(date) == fmt(date)[2] - 1

startOfMonth(date) == newDate(getFullYear(date), getMonth(date), 1)

\* day 0 of the next month is the last day of this one
endOfMonth(date) == newDate(getFullYear(date), getMonth(date) + 1, 0)

\* faulty variant: the week starts on Monday
startOfWeekMonday(date) == date - ((getDay(date) + 6) % 7)

\* startOfWeek(date, { weekStartsOn: 0 })
startOfWeek(date) == date - getDay(date)

\* endOfWeek(date, { weekStartsOn: 0 })
endOfWeek(date) == date + (6 - getDay(date))

\* eachDayOfInterval({ start, end })
eachDayOfInterval(start, end) == [i \in 1 .. (end - start + 1) |-> start + i - 1]

(***************************************************************************)
(* utils/date.ts                                                           *)
(***************************************************************************)
\* faulty variant: the pair is returned as given, never swapped
clampRangeNoSwap(a, b) == <<a, b>>

\* faulty variant: a swapped pair loses its later date
clampRangeCollapsed(a, b) == IF isAfter(a, b) THEN <<b, b>> ELSE <<a, b>>

clampRange(a, b) == IF isAfter(a, b) THEN <<b, a>> ELSE <<a, b>>

\* faulty variant: the difference keeps its sign
durationDaysSigned(startISO, endISO) ==
    differenceInCalendarDays(parseISO(endISO), parseISO(startISO)) + 1

durationDays(startISO, endISO) ==
    Abs(differenceInCalendarDays(parseISO(endISO), parseISO(startISO))) + 1

monthGridDays(anchor) ==
    LET start == startOfWeek(startOfMonth(anchor))
        end   == endOfWeek(endOfMonth(anchor))
    IN  eachDayOfInterval(start, end)

\* faulty variant: the end is put len days after the start, not len - 1
moveRangeOneDayLonger(newStartISO, oldStartISO, oldEndISO) ==
    LET len == durationDays(oldStartISO, oldEndISO)
        ns  == parseISO(newStartISO)
        ne  == setDate(ns, getDate(ns) + len)
    IN  [start |-> fmt(ns), end |-> fmt(ne)]

moveRangeKeepingLength(newStartISO, oldStartISO, oldEndISO) ==
    LET len == durationDays(oldStartISO, oldEndISO)
        ns  == parseISO(newStartISO)
        ne  == setDate(ns, getDate(ns) + (len - 1))
    IN  [start |-> fmt(ns), end |-> fmt(ne)]

\* faulty variant: the left handle keeps the start and the right handle the end
setStartOrEndSidesSwapped(side, dropISO, startISO, endISO) ==
    IF side = "left"
    THEN LET r == clampRange(parseISO(startISO), parseISO(dropISO))
         IN  [start |-> fmt(r[1]), end |-> fmt(r[2])]
    ELSE LET r == clampRange(parseISO(dropISO), parseISO(endISO))
         IN  [start |-> fmt(r[1]), end |-> fmt(r[2])]

setStartOrEndToISO(side, dropISO, startISO, endISO) ==
    IF side = "left"
    THEN LET r == clampRange(parseISO(dropISO), parseISO(endISO))
         IN  [start |-> fmt(r[1]), end |-> fmt(r[2])]
    ELSE LET r == clampRange(parseISO(startISO), parseISO(dropISO))
         IN  [start |-> fmt(r[1]), end |-> fmt(r[2])]

(***************************************************************************)
(* String.prototype.trim on a sequence of characters.                      *)
(***************************************************************************)
RECURSIVE trimLeft(_)
trimLeft(s) ==
    IF s /= <<>> /\ Head(s) = " " THEN trimLeft(Tail(s)) ELSE s

RECURSIVE trimRight(_)
trimRight(s) ==
    IF s /= <<>> /\ s[Len(s)] = " "
    THEN trimRight(SubSeq(s, 1, Len(s) - 1))
    ELSE s

trim(s) == trimRight(trimLeft(s))

(***************************************************************************)
(* The state of the two components as one record, so that a handler is a   *)
(* function from the state it runs in to the state it leaves.              *)
(***************************************************************************)
st == [tasks        |-> tasks,
       pendingStart |-> pendingStart,
       pendingEnd   |-> pendingEnd,
       dragRef      |-> dragRef,
       modalOpen    |-> modalOpen,
       name         |-> name,
       category     |-> category]

NoDrag == [kind |-> "none"]

initialState ==
    [tasks        |-> <<>>,
     pendingStart |-> Null,
     pendingEnd   |-> Null,
     dragRef      |-> NoDrag,
     modalOpen    |-> FALSE,
     name         |-> <<>>,
     category     |-> "To Do"]

(***************************************************************************)
(* TaskModal.tsx                                                           *)
(***************************************************************************)
\* the start / end props Calendar passes to the dialog
startProp(s) ==
    IF s.pendingStart /= Null /\ s.pendingEnd /= Null
    THEN Some(clampRange(s.pendingStart[1], s.pendingEnd[1])[1])
    ELSE Null

endProp(s) ==
    IF s.pendingStart /= Null /\ s.pendingEnd /= Null
    THEN Some(clampRange(s.pendingStart[1], s.pendingEnd[1])[2])
    ELSE Null

\* faulty variant: the name is tested without trimming it
disabledUntrimmed(s) == startProp(s) = Null \/ endProp(s) = Null \/ s.name = <<>>

disabled(s) == startProp(s) = Null \/ endProp(s) = Null \/ trim(s.name) = <<>>

\* useEffect(..., [show, start, end]): after the render that follows a
\* handler, if show, start or end changed and the dialog shows, the form is
\* reset
render(prev, next) ==
    IF /\ next.modalOpen
       /\ \/ next.modalOpen /= prev.modalOpen
          \/ startProp(next) /= startProp(prev)
          \/ endProp(next) /= endProp(prev)
    THEN [next EXCEPT !.name = <<>>, !.category = "To Do"]
    ELSE next

\* onChange of the name field
setName(s, n) == render(s, [s EXCEPT !.name = n])

\* onChange of the category select
setCategory(s, c) == render(s, [s EXCEPT !.category = c])

(***************************************************************************)
(* Calendar.tsx: selection handlers.                                       *)
(***************************************************************************)
handleMouseDownDay(s, day) ==
    render(s, [s EXCEPT !.pendingStart = Some(day),
                        !.pendingEnd = Some(day),
                        !.dragRef = [kind |-> "select", start |-> day, end |-> day]])

\* faulty variant: entering a day also moves the start of the pending range
handleMouseEnterDayLosesStart(s, day) ==
    IF s.dragRef.kind = "select"
    THEN render(s, [s EXCEPT !.pendingStart = Some(day),
                             !.pendingEnd = Some(day),
                             !.dragRef = [kind  |-> "select",
                                          start |-> s.dragRef.start,
                                          end   |-> day]])
    ELSE s

\* faulty variant: entering a day sets the end of the pending range even
\* when no selection is in progress
handleMouseEnterDayOutsideSelect(s, day) ==
    IF s.dragRef.kind = "select"
    THEN render(s, [s EXCEPT !.pendingEnd = Some(day),
                             !.dragRef = [kind  |-> "select",
                                          start |-> s.dragRef.start,
                                          end   |-> day]])
    ELSE render(s, [s EXCEPT !.pendingEnd = Some(day)])

handleMouseEnterDay(s, day) ==
    IF s.dragRef.kind = "select"
    THEN render(s, [s EXCEPT !.pendingEnd = Some(day),
                             !.dragRef = [kind  |-> "select",
                                          start |-> s.dragRef.start,
                                          end   |-> day]])
    ELSE s

\* faulty variant: a pointer release opens the dialog whatever the gesture
handleMouseUpDayAlwaysOpens(s) ==
    render(s, [s EXCEPT !.modalOpen = TRUE,
                        !.dragRef = NoDrag])

handleMouseUpDay(s) ==
    render(s, [s EXCEPT !.modalOpen = IF s.dragRef.kind = "select" THEN TRUE ELSE @,
                        !.dragRef = NoDrag])

\* faulty variant: leaving the grid ends the gesture but keeps the pending range
onMouseLeaveKeepsPending(s) ==
    IF s.dragRef.kind = "select"
    THEN render(s, [s EXCEPT !.dragRef = NoDrag])
    ELSE s

\* onMouseLeave of the grid
onMouseLeave(s) ==
    IF s.dragRef.kind = "select"
    THEN render(s, [s EXCEPT !.dragRef = NoDrag,
                             !.pendingStart = Null,
                             !.pendingEnd = Null])
    ELSE s

(***************************************************************************)
(* Create task from the dialog.                                            *)
(***************************************************************************)
\* crypto.randomUUID(): an id no task of the store has
randomUUID(ts) == Len(ts) + 1

\* faulty variant: the new task is put in front of the store
handleSaveTaskInFront(s, payload) ==
    LET newTask == [id       |-> randomUUID(s.tasks),
                    name     |-> payload.name,
                    category |-> payload.category,
                    start    |-> payload.start,
                    end      |-> payload.end]
    IN  render(s, [s EXCEPT !.tasks = <<newTask>> \o @,
                            !.pendingStart = Null,
                            !.pendingEnd = Null,
                            !.modalOpen = FALSE])

handleSaveTask(s, payload) ==
    LET newTask == [id       |-> randomUUID(s.tasks),
                    name     |-> payload.name,
                    category |-> payload.category,
                    start    |-> payload.start,
                    end      |-> payload.end]
    IN  render(s, [s EXCEPT !.tasks = Append(@, newTask),
                            !.pendingStart = Null,
                            !.pendingEnd = Null,
                            !.modalOpen = FALSE])

\* a click on Save Task: a disabled button swallows the click
saveTaskClick(s) ==
    IF disabled(s) \/ startProp(s) = Null \/ endProp(s) = Null
    THEN s
    ELSE handleSaveTask(s, [name     |-> trim(s.name),
                            category |-> s.category,
                            start    |-> fmt(startProp(s)[1]),
                            end      |-> fmt(endProp(s)[1])])

\* onClose: the Cancel button, the close button, onHide
onClose(s) ==
    render(s, [s EXCEPT !.modalOpen = FALSE,
                        !.pendingStart = Null,
                        !.pendingEnd = Null])

(***************************************************************************)
(* Calendar.tsx: drag to move / resize.                                    *)
(***************************************************************************)
onTaskDragStart(s, taskId) ==
    [s EXCEPT !.dragRef = [kind |-> "move", taskId |-> taskId]]

onTaskResizeDragStart(s, taskId, side) ==
    [s EXCEPT !.dragRef = [kind |-> "resize", taskId |-> taskId, side |-> side]]

\* { ...t, ...range }
withRange(t, r) == [t EXCEPT !.start = r.start, !.end = r.end]

\* faulty variant: the move is applied to every task, whatever its id
moveTasksAll(ts, taskId, dropDay) ==
    [i \in 1 .. Len(ts) |->
        withRange(ts[i], moveRangeKeepingLength(fmt(dropDay), ts[i].start, ts[i].end))]

\* the move branch: prev.map(...)
moveTasks(ts, taskId, dropDay) ==
    [i \in 1 .. Len(ts) |->
        IF ts[i].id = taskId
        THEN withRange(ts[i], moveRangeKeepingLength(fmt(dropDay), ts[i].start, ts[i].end))
        ELSE ts[i]]

\* the resize branch: prev.map(...)
resizeTasks(ts, taskId, side, dropDay) ==
    [i \in 1 .. Len(ts) |->
        IF ts[i].id = taskId
        THEN withRange(ts[i], setStartOrEndToISO(side, fmt(dropDay), ts[i].start, ts[i].end))
        ELSE ts[i]]

\* faulty variant: the drop leaves the drag context as it is
onDayDropKeepsContext(s, dropDay) ==
    LET meta == s.dragRef IN
    IF meta.kind = "none"
    THEN s
    ELSE render(s, [s EXCEPT
            !.tasks = IF meta.kind = "move"
                      THEN moveTasks(@, meta.taskId, dropDay)
                      ELSE IF meta.kind = "resize"
                      THEN resizeTasks(@, meta.taskId, meta.side, dropDay)
                      ELSE @])

onDayDrop(s, dropDay) ==
    LET meta == s.dragRef IN
    IF meta.kind = "none"
    THEN s
    ELSE render(s, [s EXCEPT
            !.tasks = IF meta.kind = "move"
                      THEN moveTasks(@, meta.taskId, dropDay)
                      ELSE IF meta.kind = "resize"
                      THEN resizeTasks(@, meta.taskId, meta.side, dropDay)
                      ELSE @,
            !.dragRef = NoDrag])

\* a drag released where no day cell is: only day cells have onDrop, and no
\* element handles dragend, so no handler runs
dragEndOutside(s) == s

(***************************************************************************)
(* The filters of the toolbar and the month shown.                         *)
(***************************************************************************)
UpperCase == << "A", "B", "C", "D", "E", "F", "G", "H", "I", "J", "K", "L", "M",
                "N", "O", "P", "Q", "R", "S", "T", "U", "V", "W", "X", "Y", "Z" >>
LowerCase == << "a", "b", "c", "d", "e", "f", "g", "h", "i", "j", "k", "l", "m",
                "n", "o", "p", "q", "r", "s", "t", "u", "v", "w", "x", "y", "z" >>

\* String.prototype.toLowerCase on the ASCII letters
toLowerCase(text) ==
    [i \in 1 .. Len(text) |->
        IF \E k \in 1 .. Len(UpperCase) : UpperCase[k] = text[i]
        THEN LowerCase[CHOOSE k \in 1 .. Len(UpperCase) : UpperCase[k] = text[i]]
        ELSE text[i]]

\* String.prototype.includes
includes(hay, needle) ==
    \E k \in 0 .. (Len(hay) - Len(needle)) :
        SubSeq(hay, k + 1, k + Len(needle)) = needle

\* faulty variant: compares the texts as typed
includesCaseSensitive(hay, needle) == includes(hay, needle)

includesCaseInsensitive(hay, needle) ==
    includes(toLowerCase(hay), toLowerCase(needle))

\* the callback of tasks.filter: FALSE where the code returns false
passesFilters(t, q, cats, dur) ==
    IF q # <<>> /\ ~includesCaseInsensitive(t.name, q) THEN FALSE
    ELSE IF Cardinality(cats) # 0 /\ t.category \notin cats THEN FALSE
    ELSE IF dur # 0 /\ durationDays(t.start, t.end) > dur THEN FALSE
    ELSE TRUE

RECURSIVE filteredTasks(_, _, _, _)
filteredTasks(ts, q, cats, dur) ==
    IF ts = <<>> THEN <<>>
    ELSE (IF passesFilters(Head(ts), q, cats, dur) THEN <<Head(ts)>> ELSE <<>>)
         \o filteredTasks(Tail(ts), q, cats, dur)

\* the rows of the grid: gridDays.slice(row * 7, row * 7 + 7) for each of
\* the gridDays.length / 7 rows
gridRows(gridDays) ==
    [row \in 1 .. (Len(gridDays) \div 7) |->
        SubSeq(gridDays, (row - 1) * 7 + 1, (row - 1) * 7 + 7)]

\* setCategoryFilters' updater: a copy of the set with c added or removed
toggleCategorySet(prev, c) == IF c \in prev THEN prev \ {c} ELSE prev \cup {c}

(***************************************************************************)
(* Actions: one per operation of the interaction layer.                    *)
(***************************************************************************)
\* the handler's result becomes the components' state
Do(r) ==
    /\ tasks' = r.tasks
    /\ pendingStart' = r.pendingStart
    /\ pendingEnd' = r.pendingEnd
    /\ dragRef' = r.dragRef
    /\ modalOpen' = r.modalOpen
    /\ name' = r.name
    /\ category' = r.category
    /\ UNCHANGED <<currentMonth, query, categoryFilters, durationFilter>>
    /\ UNCHANGED <<args, result>>

\* the per-task duration history after a step that leaves the store at ts:
\* reset for the task with id taskId (0: none), extended for a new task
lenHistory(ts, taskId) ==
    [i \in 1 .. Len(ts) |->
        IF i > Len(baseLen) \/ ts[i].id = taskId
        THEN durationDays(ts[i].start, ts[i].end)
        ELSE baseLen[i]]

\* the model keeps every task inside the window of days it explores
InWindow(ts) == \A i \in 1 .. Len(ts) : parseISO(ts[i].end) <= FirstDay + Horizon

Init ==
    /\ tasks = initialState.tasks
    /\ pendingStart = initialState.pendingStart
    /\ pendingEnd = initialState.pendingEnd
    /\ dragRef = initialState.dragRef
    /\ modalOpen = initialState.modalOpen
    /\ name = initialState.name
    /\ category = initialState.category
    /\ currentMonth = FirstDay
    /\ query = <<>>
    /\ categoryFilters = {}
    /\ durationFilter = 0
    /\ args = Null
    /\ result = NoCall
    /\ gest = Null
    /\ baseLen = <<>>

beginSelect(day) ==
    /\ Do(handleMouseDownDay(st, day))
    /\ gest' = Some(<<day, day>>)
    /\ UNCHANGED baseLen

extendSelect(day) ==
    /\ Do(handleMouseEnterDay(st, day))
    /\ gest' = IF dragRef.kind = "select" /\ gest /= Null
               THEN Some(<<gest[1][1], day>>)
               ELSE gest
    /\ UNCHANGED baseLen

endSelect ==
    /\ Do(handleMouseUpDay(st))
    /\ gest' = Null
    /\ UNCHANGED baseLen

cancelSelect ==
    /\ Do(onMouseLeave(st))
    /\ gest' = Null
    /\ UNCHANGED baseLen

\* the form is rendered only while the dialog shows
typeName(n) ==
    /\ modalOpen
    /\ Do(setName(st, n))
    /\ UNCHANGED <<gest, baseLen>>

pickCategory(c) ==
    /\ modalOpen
    /\ Do(setCategory(st, c))
    /\ UNCHANGED <<gest, baseLen>>

\* confirm of the creation flow (create)
confirm ==
    /\ modalOpen
    /\ Len(saveTaskClick(st).tasks) <= MaxTasks
    /\ Do(saveTaskClick(st))
    /\ baseLen' = lenHistory(saveTaskClick(st).tasks, 0)
    /\ gest' = IF saveTaskClick(st) = st THEN gest ELSE Null

\* cancel of the creation flow
cancel ==
    /\ modalOpen
    /\ Do(onClose(st))
    /\ gest' = Null
    /\ UNCHANGED baseLen

beginMove(taskId) ==
    /\ Do(onTaskDragStart(st, taskId))
    /\ gest' = Null
    /\ UNCHANGED baseLen

beginResize(taskId, side) ==
    /\ Do(onTaskResizeDragStart(st, taskId, side))
    /\ gest' = Null
    /\ UNCHANGED baseLen

drop(day) ==
    /\ InWindow(onDayDrop(st, day).tasks)
    /\ Do(onDayDrop(st, day))
    /\ gest' = Null
    /\ baseLen' = lenHistory(onDayDrop(st, day).tasks,
                             IF dragRef.kind = "resize" THEN dragRef.taskId ELSE 0)

\* the drag gesture ends outside every day cell
dropOutside ==
    /\ dragRef.kind \in {"move", "resize"}
    /\ Do(dragEndOutside(st))
    /\ UNCHANGED <<gest, baseLen>>

Next ==
    \/ \E day \in Days : beginSelect(day)
    \/ \E day \in Days : extendSelect(day)
    \/ endSelect
    \/ cancelSelect
    \/ \E n \in NameInputs : typeName(n)
    \/ \E c \in CategoryInputs : pickCategory(c)
    \/ confirm
    \/ cancel
    \/ \E id \in TaskIds : beginMove(id)
    \/ \E id \in TaskIds, side \in {"left", "right"} : beginResize(id, side)
    \/ \E day \in Days : drop(day)
    \/ dropOutside

Spec == Init /\ [][Next]_vars

(***************************************************************************)
(* The toolbar filters over a store that already holds tasks.              *)
(***************************************************************************)
Categories == {"To Do", "In Progress", "Review", "Completed"}
\* the values of the duration radio buttons
DurationOptions == {0, 7, 14, 21}
\* texts typed into the search box
QueryInputs == { <<>>, <<"a">>, <<"A">>, <<"a", "B">>, <<"A", "b">> }

\* a task as handleSaveTask stores it, len days long from FirstDay on
storedTask(nm, cat, len) ==
    [name |-> nm, category |-> cat, start |-> fmt(FirstDay), end |-> fmt(FirstDay + len - 1)]

StoredTasks ==
    { storedTask(<<"A", "b">>, "To Do", 1),
      storedTask(<<"a">>, "Review", 7),
      storedTask(<<"b", "A", "b">>, "In Progress", 8),
      storedTask(<<"B">>, "Completed", 15),
      storedTask(<<"a", "b">>, "To Do", 22) }

\* the stores of up to MaxTasks saved tasks, ids in the order of saving
StoreInputs ==
    UNION { { [i \in 1 .. n |->
                 [id |-> i, name |-> f[i].name, category |-> f[i].category,
                  start |-> f[i].start, end |-> f[i].end]]
              : f \in [1 .. n -> StoredTasks] }
            : n \in 0 .. MaxTasks }

\* the handlers of the toolbar leave everything but the filters alone
filterFrame ==
    UNCHANGED <<tasks, pendingStart, pendingEnd, dragRef, modalOpen, name,
                category, currentMonth, args, result, gest, baseLen>>

InitFilter ==
    /\ tasks \in StoreInputs
    /\ pendingStart = initialState.pendingStart
    /\ pendingEnd = initialState.pendingEnd
    /\ dragRef = initialState.dragRef
    /\ modalOpen = initialState.modalOpen
    /\ name = initialState.name
    /\ category = initialState.category
    /\ currentMonth = FirstDay
    /\ query = <<>>
    /\ categoryFilters = {}
    /\ durationFilter = 0
    /\ args = Null
    /\ result = NoCall
    /\ gest = Null
    /\ baseLen = <<>>

setQuery(q) ==
    /\ query' = q
    /\ UNCHANGED <<categoryFilters, durationFilter>>
    /\ filterFrame

toggleCategory(c) ==
    /\ categoryFilters' = toggleCategorySet(categoryFilters, c)
    /\ UNCHANGED <<query, durationFilter>>
    /\ filterFrame

setDurationFilter(v) ==
    /\ durationFilter' = v
    /\ UNCHANGED <<query, categoryFilters>>
    /\ filterFrame

NextFilter ==
    \/ \E q \in QueryInputs : setQuery(q)
    \/ \E c \in Categories : toggleCategory(c)
    \/ \E v \in DurationOptions : setDurationFilter(v)

SpecFilter == InitFilter /\ [][NextFilter]_vars

(***************************************************************************)
(* The month shown: any day as today, then the Prev and Next buttons.      *)
(***************************************************************************)
\* the calendar is opened on a day from FirstDay to FirstDay + AnchorSpan
AnchorSpan == 366
AnchorInputs == FirstDay .. (FirstDay + AnchorSpan)

\* the buttons are followed while the month shown stays near the window
MonthInWindow(date) ==
    /\ date >= FirstDay - AnchorSpan
    /\ date <= FirstDay + 2 * AnchorSpan

monthFrame ==
    UNCHANGED <<tasks, pendingStart, pendingEnd, dragRef, modalOpen, name,
                category, query, categoryFilters, durationFilter, args, result,
                gest, baseLen>>

InitMonth ==
    /\ tasks = initialState.tasks
    /\ pendingStart = initialState.pendingStart
    /\ pendingEnd = initialState.pendingEnd
    /\ dragRef = initialState.dragRef
    /\ modalOpen = initialState.modalOpen
    /\ name = initialState.name
    /\ category = initialState.category
    /\ currentMonth \in AnchorInputs
    /\ query = <<>>
    /\ categoryFilters = {}
    /\ durationFilter = 0
    /\ args = Null
    /\ result = NoCall
    /\ gest = Null
    /\ baseLen = <<>>

prevMonth ==
    LET d == newDate(getFullYear(currentMonth), getMonth(currentMonth) - 1, 1)
    IN  /\ MonthInWindow(d)
        /\ currentMonth' = d
        /\ monthFrame

nextMonth ==
    LET d == newDate(getFullYear(currentMonth), getMonth(currentMonth) + 1, 1)
    IN  /\ MonthInWindow(d)
        /\ currentMonth' = d
        /\ monthFrame

NextMonth ==
    \/ prevMonth
    \/ nextMonth

SpecMonth == InitMonth /\ [][NextMonth]_vars

(***************************************************************************)
(* The date utilities called on their own, on any two dates.               *)
(***************************************************************************)
InitDates ==
    /\ tasks = initialState.tasks
    /\ pendingStart = initialState.pendingStart
    /\ pendingEnd = initialState.pendingEnd
    /\ dragRef = initialState.dragRef
    /\ modalOpen = initialState.modalOpen
    /\ name = initialState.name
    /\ category = initialState.category
    /\ currentMonth = FirstDay
    /\ query = <<>>
    /\ categoryFilters = {}
    /\ durationFilter = 0
    /\ args \in DateInputs \X DateInputs
    /\ result = NoCall
    /\ gest = Null
    /\ baseLen = <<>>

\* a call of a utility changes nothing but what it returns
datesFrame ==
    UNCHANGED <<tasks, pendingStart, pendingEnd, dragRef, modalOpen, name,
                category, currentMonth, query, categoryFilters, durationFilter,
                args, gest, baseLen>>

\* clampRange(a, b)
callClampRange ==
    /\ result' = [fn |-> "clampRange", of |-> args,
                  val |-> clampRange(args[1], args[2])]
    /\ datesFrame

\* clampRange(x, y) on the pair [x, y] the last call of clampRange returned
callClampRangeOnResult ==
    /\ result.fn = "clampRange"
    /\ result' = [fn |-> "clampRange", of |-> result.val,
                  val |-> clampRange(result.val[1], result.val[2])]
    /\ datesFrame

\* durationDays(s, e) on the two dates as ISO texts, in either order
callDurationDays ==
    /\ \E p \in {args, <<args[2], args[1]>>} :
          result' = [fn |-> "durationDays", of |-> p,
                     val |-> durationDays(fmt(p[1]), fmt(p[2]))]
    /\ datesFrame

NextDates ==
    \/ callClampRange
    \/ callClampRangeOnResult
    \/ callDurationDays

SpecDates == InitDates /\ [][NextDates]_vars

(***************************************************************************)
(* Vocabulary of the properties.                                           *)
(***************************************************************************)
Min(a, b) == IF a <= b THEN a ELSE b
Max(a, b) == IF a <= b THEN b ELSE a

\* calendar days of a task, counted from its start to its end
Span(t) == parseISO(t.end) - parseISO(t.start) + 1

StartLeEnd(ts) == \A i \in 1 .. Len(ts) : parseISO(ts[i].start) <= parseISO(ts[i].end)

Ids(ts) == [i \in 1 .. Len(ts) |-> ts[i].id]

HasId(ts, id) == \E i \in 1 .. Len(ts) : ts[i].id = id

Blank(n) == \A i \in 1 .. Len(n) : n[i] = " "

(***************************************************************************)
(* C1.  Every task of the store has start <= end, in every reachable       *)
(* state, and so has every task of the store any drop (move or resize,     *)
(* also past the opposite edge) or any Save click (also of a selection     *)
(* dragged backwards) leaves.                                              *)
(***************************************************************************)
C1_StartLeEnd ==
    /\ StartLeEnd(tasks)
    /\ \A i \in 1 .. Len(tasks) : Span(tasks[i]) >= 1
    /\ \A d \in Days : StartLeEnd(onDayDrop(st, d).tasks)
    /\ StartLeEnd(saveTaskClick(st).tasks)

\* a resize of the left edge is about to be dropped past the task's end, and
\* the drop leaves the task starting at its old end
C1_Witness ==
    /\ dragRef.kind = "resize"
    /\ dragRef.side = "left"
    /\ \E i \in 1 .. Len(tasks), d \in Days :
          /\ tasks[i].id = dragRef.taskId
          /\ d > parseISO(tasks[i].end)
          /\ onDayDrop(st, d).tasks[i].start = tasks[i].end
          /\ onDayDrop(st, d).tasks[i].end = fmt(d)

(***************************************************************************)
(* C2.  beginSelect(d1), extendSelect calls ending with d2, endSelect():   *)
(* the creation flow is open and the drag context None; a confirm then     *)
(* appends exactly one task with start = min(d1,d2), end = max(d1,d2).     *)
(* As amended: the confirm takes effect when the name is non-empty after   *)
(* trimming, and the task's name is the entered name trimmed.              *)
(***************************************************************************)
\* endSelect opens the creation flow on the days of the gesture
C2_Opened ==
    gest /= Null =>
        /\ modalOpen'
        /\ dragRef' = NoDrag
        /\ pendingStart' = Some(gest[1][1])
        /\ pendingEnd' = Some(gest[1][2])

\* entering a name or a category keeps the request
C2_Kept == UNCHANGED <<tasks, pendingStart, pendingEnd, dragRef, modalOpen>>

\* the store after a confirm that creates a task named nm from the request
C2_Created(nm) ==
    LET d1 == pendingStart[1]
        d2 == pendingEnd[1]
    IN  /\ Len(tasks') = Len(tasks) + 1
        /\ SubSeq(tasks', 1, Len(tasks)) = tasks
        /\ tasks'[Len(tasks')].start = fmt(Min(d1, d2))
        /\ tasks'[Len(tasks')].end = fmt(Max(d1, d2))
        /\ tasks'[Len(tasks')].name = nm
        /\ tasks'[Len(tasks')].category = category
        /\ (d1 = d2 => Span(tasks'[Len(tasks')]) = 1)

C2_Request == modalOpen /\ pendingStart /= Null /\ pendingEnd /= Null

\* C2 (as amended): endSelect after beginSelect(d1) .. extendSelect(d2) opens
\* the flow on <<d1, d2>> with the drag context None, typing keeps it, and a
\* confirm with a name that is not blank appends exactly one task with start =
\* min(d1,d2), end = max(d1,d2), the trimmed name and the category entered
C2_SelectCreates ==
    [][ /\ endSelect => C2_Opened
        /\ (\E n \in NameInputs : typeName(n)) => C2_Kept
        /\ (\E c \in CategoryInputs : pickCategory(c)) => C2_Kept
        /\ (confirm /\ C2_Request /\ ~Blank(name)) => C2_Created(trim(name))
      ]_vars

\* C2 as written: a confirm with any non-empty name appends the task, whose
\* name is the text entered
C2_AsWritten ==
    [][ /\ endSelect => C2_Opened
        /\ (\E n \in NameInputs : typeName(n)) => C2_Kept
        /\ (\E c \in CategoryInputs : pickCategory(c)) => C2_Kept
        /\ (confirm /\ C2_Request /\ name /= <<>>) => C2_Created(name)
      ]_vars

\* a selection dragged backwards over three days has opened the flow, a
\* padded name and a category are entered, and Save will create the task
C2_Witness ==
    /\ C2_Request
    /\ pendingStart[1] = pendingEnd[1] + 2
    /\ dragRef = NoDrag
    /\ ~Blank(name)
    /\ name /= trim(name)
    /\ category = "Review"
    /\ Len(saveTaskClick(st).tasks) = Len(tasks) + 1

(***************************************************************************)
(* C3.  beginMove(id) then drop(d) sets the task's start to d and its end  *)
(* to d + (oldDuration - 1) days, so its duration is unchanged, also       *)
(* across a month boundary; after any sequence of moves a task's duration  *)
(* is its duration at creation or at its last resize.                      *)
(***************************************************************************)
C3_Moved(i, d) ==
    LET moved == onDayDrop(onTaskDragStart(st, tasks[i].id), d).tasks[i]
    IN  /\ moved.start = fmt(d)
        /\ parseISO(moved.start) = d
        /\ parseISO(moved.end) = d + (Span(tasks[i]) - 1)
        /\ Span(moved) = Span(tasks[i])

\* C3: a move puts the start on the drop day and keeps the duration, and
\* every task's duration is the one of its creation or last resize
C3_MoveKeepsLength ==
    /\ \A i \in 1 .. Len(tasks), d \in Days : C3_Moved(i, d)
    /\ \A i \in 1 .. Len(tasks) : Span(tasks[i]) = baseLen[i]

\* a task of several days is being moved, and a drop takes it across the
\* end of the month
C3_Witness ==
    /\ dragRef.kind = "move"
    /\ \E i \in 1 .. Len(tasks), d \in Days :
          /\ tasks[i].id = dragRef.taskId
          /\ Span(tasks[i]) >= 2
          /\ tasks[i].start /= fmt(d)
          /\ onDayDrop(st, d).tasks[i].start[2] /= onDayDrop(st, d).tasks[i].end[2]
          /\ InWindow(onDayDrop(st, d).tasks)

(***************************************************************************)
(* C4.  beginResize(id, left) then drop(d) yields start = min(d,e), end =  *)
(* max(d,e); beginResize(id, right) then drop(d) yields start = min(s,d),  *)
(* end = max(s,d): the edge not dragged stays an endpoint, and a drop past *)
(* the opposite edge inverts the range.                                    *)
(***************************************************************************)
C4_Resized(i, side, d) ==
    LET t      == onDayDrop(onTaskResizeDragStart(st, tasks[i].id, side), d).tasks[i]
        s      == parseISO(tasks[i].start)
        e      == parseISO(tasks[i].end)
        anchor == IF side = "left" THEN e ELSE s
    IN  /\ t.start = fmt(Min(anchor, d))
        /\ t.end = fmt(Max(anchor, d))
        /\ parseISO(t.start) = Min(anchor, d)
        /\ parseISO(t.end) = Max(anchor, d)

C5_PendingRetained == modalOpen => pendingStart /= Null /\ pendingEnd /= Null

(***************************************************************************)
(* C6.  cancelSelect() while Selecting sets the drag context to None,      *)
(* clears the pending range, does not open the creation flow and leaves    *)
(* the store unchanged; no later pointer release of that gesture opens     *)
(* the flow.                                                               *)
(***************************************************************************)
C6_NoRequestAfter(r) ==
    /\ handleMouseUpDay(r).modalOpen = modalOpen
    /\ handleMouseUpDay(r).tasks = tasks
    /\ \A d \in Days :
          /\ handleMouseUpDay(handleMouseEnterDay(r, d)).modalOpen = modalOpen
          /\ handleMouseUpDay(handleMouseEnterDay(r, d)).tasks = tasks
          /\ handleMouseEnterDay(r, d).pendingEnd = Null

\* C6: cancelSelect while Selecting discards the selection and no creation
\* request follows from it
C6_CancelDiscards ==
    dragRef.kind = "select" =>
        /\ onMouseLeave(st).dragRef = NoDrag
        /\ onMouseLeave(st).pendingStart = Null
        /\ onMouseLeave(st).pendingEnd = Null
        /\ onMouseLeave(st).modalOpen = modalOpen
        /\ onMouseLeave(st).tasks = tasks
        /\ C6_NoRequestAfter(onMouseLeave(st))

\* a selection extended to another day is in progress, no flow is open, and
\* the pointer leaving the grid discards it
C6_Witness ==
    /\ dragRef.kind = "select"
    /\ gest /= Null
    /\ gest[1][1] /= gest[1][2]
    /\ pendingStart = Some(gest[1][1])
    /\ ~modalOpen
    /\ Len(tasks) >= 1
    /\ onMouseLeave(st).pendingStart = Null
    /\ onMouseLeave(st).dragRef = NoDrag

(***************************************************************************)
(* C7.  A move or resize gesture that ends outside every day target leaves *)
(* the store unchanged and the drag context None.                          *)
(***************************************************************************)
C7_OutsideDropClears ==
    dragRef.kind \in {"move", "resize"} =>
        /\ dragEndOutside(st).tasks = tasks
        /\ dragEndOutside(st).dragRef = NoDrag

(***************************************************************************)
(* C8.  A create request whose name is empty after trimming, or whose      *)
(* start is after its end, is rejected, leaving the store and the pending  *)
(* selection (the whole state) unchanged: a Save click either changes      *)
(* nothing or appends a task with a non-blank name and start <= end; and   *)
(* no task of the store has a blank name.                                  *)
(***************************************************************************)
C8_Accepted(r) ==
    /\ ~Blank(name)
    /\ Len(r.tasks) = Len(tasks) + 1
    /\ ~Blank(r.tasks[Len(r.tasks)].name)
    /\ parseISO(r.tasks[Len(r.tasks)].start) <= parseISO(r.tasks[Len(r.tasks)].end)

\* C8: a Save click with a blank name changes nothing, an accepted one has a
\* non-blank name and start <= end, and no stored task has a blank name
C8_RejectsInvalid ==
    /\ \A i \in 1 .. Len(tasks) : ~Blank(tasks[i].name)
    /\ Blank(name) => saveTaskClick(st) = st
    /\ saveTaskClick(st) = st \/ C8_Accepted(saveTaskClick(st))

\* the flow is open on a range, a name of whitespace only is entered, and
\* the Save click changes nothing
C8_Witness ==
    /\ modalOpen
    /\ pendingStart /= Null
    /\ pendingEnd /= Null
    /\ name = <<" ">>
    /\ Len(tasks) >= 1
    /\ saveTaskClick(st) = st

(***************************************************************************)
(* C9.  A drop that completes a move or resize of task id changes only the *)
(* start and end of the task with that id: its id, name and category,      *)
(* every other task, and the number and order of tasks are unchanged; if   *)
(* no task has that id the store is unchanged.                             *)
(***************************************************************************)
C9_Frame(ts) ==
    /\ Len(ts) = Len(tasks)
    /\ \A i \in 1 .. Len(tasks) :
          /\ ts[i].id = tasks[i].id
          /\ ts[i].name = tasks[i].name
          /\ ts[i].category = tasks[i].category
          /\ tasks[i].id /= dragRef.taskId => ts[i] = tasks[i]
    /\ ~HasId(tasks, dragRef.taskId) => ts = tasks

\* C9: a drop of a move or resize changes nothing but the range of the task
\* with the dragged id
C9_DropEditsOneRange ==
    dragRef.kind \in {"move", "resize"} =>
        \A d \in Days : C9_Frame(onDayDrop(st, d).tasks)

\* two tasks of different ranges and categories, the second one is being
\* moved, and a drop changes its range
C9_Witness ==
    /\ Len(tasks) = 2
    /\ tasks[1].category /= tasks[2].category
    /\ tasks[1].start /= tasks[2].start
    /\ dragRef.kind = "move"
    /\ dragRef.taskId = tasks[2].id
    /\ \E d \in Days :
          /\ onDayDrop(st, d).tasks[2].start /= tasks[2].start
          /\ onDayDrop(st, d).tasks[2].end /= tasks[2].end
          /\ onDayDrop(st, d).tasks[1] = tasks[1]

(***************************************************************************)
(* C10.  The store is append-only: in every step the ids before the step   *)
(* are a prefix of the ids after it, and the only step that lengthens the  *)
(* store is a confirmed creation, which appends exactly one task.          *)
(***************************************************************************)
C10_AppendOnly ==
    [][ /\ Len(tasks') >= Len(tasks)
        /\ SubSeq(Ids(tasks'), 1, Len(tasks)) = Ids(tasks)
        /\ Len(tasks') /= Len(tasks) =>
              /\ confirm
              /\ modalOpen
              /\ ~Blank(name)
              /\ Len(tasks') = Len(tasks) + 1
      ]_vars

\* one task is stored, the flow is open with a valid name, and the Save
\* click puts the new task behind it
C10_Witness ==
    /\ Len(tasks) = 1
    /\ modalOpen
    /\ ~Blank(name)
    /\ Ids(saveTaskClick(st).tasks) = <<tasks[1].id, randomUUID(tasks)>>

(***************************************************************************)
(* C11: the visible tasks are the tasks of the store, in the order of the  *)
(* store, for which (the query is empty or the name contains the query,    *)
(* ignoring case) and (no category is ticked or the task's category is     *)
(* ticked) and (the duration filter is 0 or the task lasts at most that    *)
(* many days, both ends counted); with the empty filter they are the whole *)
(* store; queries that differ only in letter case show the same tasks; and *)
(* filtering leaves the store as it is.                                    *)
(***************************************************************************)
\* the same character, or the two cases of one letter
SameLetter(x, y) ==
    \/ x = y
    \/ \E k \in 1 .. Len(UpperCase) :
          {x, y} = {UpperCase[k], LowerCase[k]}

SameIgnoringCase(u, v) ==
    /\ Len(u) = Len(v)
    /\ \A i \in 1 .. Len(u) : SameLetter(u[i], v[i])

ContainsIgnoringCase(hay, needle) ==
    \E k \in 0 .. (Len(hay) - Len(needle)) :
        \A j \in 1 .. Len(needle) : SameLetter(hay[k + j], needle[j])

C11_Passes(t) ==
    /\ query = <<>> \/ ContainsIgnoringCase(t.name, query)
    /\ categoryFilters = {} \/ t.category \in categoryFilters
    /\ durationFilter = 0 \/ Span(t) <= durationFilter

C11_Visible ==
    /\ filteredTasks(tasks, query, categoryFilters, durationFilter)
          = SelectSeq(tasks, C11_Passes)
    /\ filteredTasks(tasks, <<>>, {}, 0) = tasks
    /\ \A q \in QueryInputs :
          SameIgnoringCase(q, query)
          => filteredTasks(tasks, q, categoryFilters, durationFilter)
               = filteredTasks(tasks, query, categoryFilters, durationFilter)

C11_VisibleTasks == [] C11_Visible /\ [][tasks' = tasks]_vars

\* every filter is set, the query in another case than the names it finds,
\* and the filters keep one task of two
C11_Witness ==
    /\ query = <<"a", "B">>
    /\ categoryFilters # {}
    /\ durationFilter # 0
    /\ Len(tasks) = 2
    /\ filteredTasks(tasks, query, categoryFilters, durationFilter) = <<tasks[2]>>
    /\ tasks[2].name = <<"A", "b">>

(***************************************************************************)
(* C12: for all dates a and b, clampRange(a, b) is a pair [x, y] with      *)
(* x <= y and {x, y} = {a, b}, and clampRange of that pair is the pair     *)
(* itself.                                                                 *)
(***************************************************************************)
C12_ClampOrders ==
    result.fn = "clampRange" =>
        LET a == result.of[1]
            b == result.of[2]
            x == result.val[1]
            y == result.val[2]
        IN  /\ x <= y
            /\ {x, y} = {a, b}
            /\ clampRange(x, y) = <<x, y>>

\* a pair given in descending order has come back swapped
C12_Witness ==
    /\ result.fn = "clampRange"
    /\ result.of[1] > result.of[2]
    /\ result.val = <<result.of[2], result.of[1]>>

(***************************************************************************)
(* C13: for all dates s and e, durationDays(s, e) is the absolute          *)
(* difference of the two in calendar days plus 1; it is at least 1 and the *)
(* same for (e, s).                                                        *)
(***************************************************************************)
C13_DurationDays ==
    result.fn = "durationDays" =>
        LET s == result.of[1]
            e == result.of[2]
        IN  /\ result.val = Max(e - s, s - e) + 1
            /\ result.val >= 1
            /\ result.val = durationDays(fmt(e), fmt(s))

\* the duration of a range given end first, across the end of February
C13_Witness ==
    /\ result.fn = "durationDays"
    /\ result.of[1] > result.of[2]
    /\ fmt(result.of[1])[2] # fmt(result.of[2])[2]
    /\ result.val > 1

(***************************************************************************)
(* C14: for every anchor date the month grid is a run of consecutive days  *)
(* whose length is a multiple of 7, from the Sunday of the week holding    *)
(* the 1st of the anchor's month to the Saturday of the week holding the   *)
(* month's last day, so every day of the month is in it; cut into rows of  *)
(* 7 it gives whole weeks.                                                 *)
(***************************************************************************)
\* 1970-01-04 was a Sunday, 1970-01-03 a Saturday
IsSunday(d) == (d - 3) % 7 = 0
IsSaturday(d) == (d - 2) % 7 = 0

SameMonth(d, e) == fmt(d)[1] = fmt(e)[1] /\ fmt(d)[2] = fmt(e)[2]

C14_MonthGrid ==
    LET grid  == monthGridDays(currentMonth)
        n     == Len(grid)
        near  == (currentMonth - 31) .. (currentMonth + 31)
        first == CHOOSE d \in near : SameMonth(d, currentMonth) /\ ~SameMonth(d - 1, currentMonth)
        last  == CHOOSE d \in near : SameMonth(d, currentMonth) /\ ~SameMonth(d + 1, currentMonth)
        rows  == gridRows(grid)
    IN  /\ n > 0
        /\ n % 7 = 0
        /\ \A i \in 1 .. (n - 1) : grid[i + 1] = grid[i] + 1
        /\ IsSunday(grid[1])
        /\ grid[1] <= first /\ first < grid[1] + 7
        /\ IsSaturday(grid[n])
        /\ grid[n] - 7 < last /\ last <= grid[n]
        /\ \A d \in near : SameMonth(d, currentMonth) => \E i \in 1 .. n : grid[i] = d
        /\ Len(rows) * 7 = n
        /\ \A r \in 1 .. Len(rows) :
              Len(rows[r]) = 7 /\ IsSunday(rows[r][1]) /\ IsSaturday(rows[r][7])

\* a February that starts on a Sunday and fills four rows exactly, reached
\* with the Next button
C14_Witness ==
    /\ Len(monthGridDays(currentMonth)) = 28
    /\ currentMonth > FirstDay + AnchorSpan
    /\ monthGridDays(currentMonth)[1] = currentMonth

(***************************************************************************)
(* C15: in every reachable state a pending selection is present only if    *)
(* the drag context is a selection or the creation flow is open; once the  *)
(* gesture has ended by a drop or has been replaced by beginMove or        *)
(* beginResize, with no creation flow open, there is no pending selection. *)
(***************************************************************************)
C15_PendingOnlyWhileSelecting ==
    (pendingStart # Null \/ pendingEnd # Null)
        => (dragRef.kind = "select" \/ modalOpen)

(***************************************************************************)
(* C16: there is one drag context; a begin* call replaces whatever context *)
(* there is by exactly its own; and after beginMove or beginResize during  *)
(* a selection the replaced selection produces no creation request: a      *)
(* pointer release that follows, with or without the pointer entering      *)
(* another day first, does not open the creation flow and leaves the store *)
(* unchanged.                                                              *)
(***************************************************************************)
\* r: the state after the begin* call that replaced the selection
C16_SelectionCancelled(r) ==
    /\ r.tasks = tasks
    /\ r.modalOpen = modalOpen
    /\ handleMouseUpDay(r).modalOpen = modalOpen
    /\ handleMouseUpDay(r).tasks = tasks
    /\ handleMouseUpDay(r).dragRef = NoDrag
    /\ \A d \in Days :
          /\ handleMouseUpDay(handleMouseEnterDay(r, d)).modalOpen = modalOpen
          /\ handleMouseUpDay(handleMouseEnterDay(r, d)).tasks = tasks

C17_DropWithoutTask ==
    dragRef.kind \in {"none", "select"} =>
        \A d \in Days :
            /\ onDayDrop(st, d).tasks = tasks
            /\ onDayDrop(st, d).modalOpen = modalOpen
            /\ onDayDrop(st, d).dragRef = NoDrag

\* a selection is in progress on a calendar that holds a task, no flow is
\* open, and a drop ends the gesture
C17_Witness ==
    /\ dragRef.kind = "select"
    /\ ~modalOpen
    /\ Len(tasks) >= 1
    /\ \E d \in Days :
          /\ onDayDrop(st, d).dragRef = NoDrag
          /\ onDayDrop(st, d).tasks = tasks
          /\ ~onDayDrop(st, d).modalOpen

(***************************************************************************)
(* C18: the pointer entering a day while the drag context is not a         *)
(* selection leaves the pending range, the drag context, the creation-flow *)
(* flag and the store unchanged; during a selection it sets the end of the *)
(* pending range and of the drag context to that day and changes nothing   *)
(* else of the four, the start staying as beginSelect recorded it.         *)
(***************************************************************************)
C18_ExtendFrame ==
    \A d \in Days :
        LET r == handleMouseEnterDay(st, d) IN
        /\ r.tasks = tasks
        /\ r.modalOpen = modalOpen
        /\ r.pendingStart = pendingStart
        /\ IF dragRef.kind = "select"
           THEN /\ r.pendingEnd = Some(d)
                /\ r.dragRef = [kind |-> "select", start |-> dragRef.start, end |-> d]
           ELSE /\ r.pendingEnd = pendingEnd
                /\ r.dragRef = dragRef

\* a selection begun on one day has been extended to another, and the
\* pointer entering a third day moves the end there
C18_Witness ==
    /\ dragRef.kind = "select"
    /\ gest # Null
    /\ pendingStart = Some(gest[1][1])
    /\ pendingEnd # pendingStart
    /\ \E d \in Days :
          /\ Some(d) # pendingStart
          /\ Some(d) # pendingEnd
          /\ handleMouseEnterDay(st, d).pendingEnd = Some(d)
          /\ handleMouseEnterDay(st, d).pendingStart = pendingStart
          /\ handleMouseEnterDay(st, d).dragRef.start = gest[1][1]

(***************************************************************************)
(* C19: whenever the drag context is a selection from start to end, the    *)
(* pending range is present and its start and end are those of the         *)
(* context, whatever the order of select events, confirm and cancel.       *)
(***************************************************************************)
C19_SelectionInSync ==
    dragRef.kind = "select" =>
        /\ pendingStart = Some(dragRef.start)
        /\ pendingEnd = Some(dragRef.end)

====
